---- MODULE Spec2Model ----
(***************************************************************************)
(* A model of mojo.errors.xtraceback: the call stack of a Python program,  *)
(* an error raised and propagated on it, enhance_exception,                *)
(* collect_stack_frames, the per-frame loop of create_traceback_detail and *)
(* format_traceback_detail.                                                *)
(*                                                                         *)
(* Three specifications share the variables and the operators:             *)
(*   Spec       the program: calls, raise, propagation, the handler's      *)
(*              calls of enhance_exception, create_traceback_detail and    *)
(*              format_exception, under the configuration the module has   *)
(*              after import;                                              *)
(*   SpecBuild  create_traceback_detail's frame loop and the renderer on   *)
(*              frame lists and configurations drawn from bounded sets;    *)
(*   SpecArgs   the argument-value renderer (the inner loop of             *)
(*              create_traceback_detail) on values drawn from a bounded    *)
(*              set.                                                       *)
(***************************************************************************)
EXTENDS Integers, Sequences, FiniteSets, TLC

VARIABLES
    cfg,                \* TRACEBACK_CONFIG: [override, max_full, expand_n]
    bases,              \* the exception classes whose __bases__ hold EnhancedErrorMixIn
    stack,              \* the live call stack, outermost frame first
    pc,                 \* where the program is
    exc,                \* the error instance in flight (NoExc when none)
    api,                \* how the handler builds: "direct" | "format" | "none"
    stack_frames,       \* create_traceback_detail: the FrameDetail list
    idx,                \* create_traceback_detail: the loop position (1-based)
    max_full_display,   \* create_traceback_detail: local budget
    expand_first_n,     \* create_traceback_detail: local budget
    co_format_policy,   \* create_traceback_detail: the policy of the last frame
    etraces,            \* create_traceback_detail: the TraceDetail list so far
    lines,              \* the lines format_exception returned
    failure,            \* the exception an engine operation raised ("none" when none)
    argv,               \* the renderer's input: a frame's captured arguments
    arep,               \* the renderer: the representation of the last argument
    rep_args_parts,     \* the renderer's output so far
    resp_code,          \* raise_for_http_status: the response code observed
    request,            \* raise_for_http_status: [url, context], each None or given
    error_type,         \* raise_for_http_status: the class raised (None when none)
    err_msg,            \* raise_for_http_status: the lines of the message raised
    full_rendered       \* the frames rendered Full so far by all the builds of the process

vars == <<cfg, bases, stack, pc, exc, api, stack_frames, idx, max_full_display,
          expand_first_n, co_format_policy, etraces, lines, failure, argv, arep,
          rep_args_parts, resp_code, request, error_type, err_msg, full_rendered>>

-----------------------------------------------------------------------------
(* Bounds of the model *)

MaxDepth == 4       \* live frames on the call stack
MaxFrames == 2      \* frames of a drawn FrameDetail list (SpecBuild)
MaxBudget == 1      \* drawn budget values are 0..MaxBudget and the defaults
MaxArgs == 2        \* captured arguments of a drawn frame (SpecArgs)
MaxCode == 650      \* drawn response codes are 0..MaxCode (SpecHttp)
MaxFullRendered == 2 \* no build starts once this many frames were rendered Full

-----------------------------------------------------------------------------
(* Program constants *)

ARG_ERROR == "<error>"
MODULE_SCOPE == "<module>"
OBFUSCATED == "<obfuscated>"

None == "None"
Brief == "Brief"
Full == "Full"
Hide == "Hide"
VALID_MEMBER_TRACE_POLICY == {Brief, Full, Hide}

TRACEBACK_POLICY_OVERRIDE == None
TRACEBACK_MAX_FULL_DISPLAY == 5
TRACEBACK_EXPAND_FIRST_N == 1

TRACEBACK_CONFIG ==
    [override |-> TRACEBACK_POLICY_OVERRIDE,
     max_full |-> TRACEBACK_MAX_FULL_DISPLAY,
     expand_n |-> TRACEBACK_EXPAND_FIRST_N]

-----------------------------------------------------------------------------
(* Sequences *)

Reverse(s) == [i \in 1..Len(s) |-> s[Len(s) + 1 - i]]

Pop(s) == SubSeq(s, 1, Len(s) - 1)

-----------------------------------------------------------------------------
(* Captured values.  A value is described by what the three steps of the   *)
(* renderer meet on it:                                                    *)
(*   probe    hasattr(aval, "moniker"): "absent" (False, also when the     *)
(*            lookup raises AttributeError), "present", or "raises" (the   *)
(*            lookup raises something else, which hasattr lets through);   *)
(*   moniker  what reading aval.moniker gives: "str", "obj" (not a string, *)
(*            printable), "unprintable" (not a string, its __format__      *)
(*            raises) or "raises";                                         *)
(*   repr     "ok", "raises" (repr(aval) raises) or "type_raises" (repr    *)
(*            raises and so does the representation of type(aval)).        *)

Probes == {"absent", "present", "raises"}
Monikers == {"str", "obj", "unprintable", "raises"}
Reprs == {"ok", "raises", "type_raises"}

Values == [probe : Probes, moniker : Monikers, repr : Reprs]

PlainValue == [probe |-> "absent", moniker |-> "raises", repr |-> "ok"]

-----------------------------------------------------------------------------
(* Frames.  depth is the frame's place on the call stack and stands for    *)
(* the frame object's identity; lib marks a frame of xtraceback itself.    *)
(* file_ok: co_filename exists and ends with ".py".  decl: what the        *)
(* frame's module declares as __traceback_format_policy__.                 *)

Decls == {"NoModule", "Undeclared", Brief, Full, Hide, "Bogus"}

FuncNames == {"f", "g"}

RootNames == {MODULE_SCOPE, "f"}

\* The functions of the modelled program: f lives in a .py file and takes
\* one parameter, g has no source file on disk and takes none.
FileOk(name) == name # "g"

ArgsOf(name) ==
    IF name = "f" THEN <<[name |-> "message", val |-> PlainValue]>> ELSE <<>>

Frame(name, depth) ==
    [depth |-> depth, name |-> name, lib |-> FALSE, file_ok |-> FileOk(name),
     decl |-> "Undeclared", args |-> ArgsOf(name)]

\* The frame of format_exception, which calls create_traceback_detail.
FormatExceptionFrame(depth) ==
    [depth |-> depth, name |-> "format_exception", lib |-> TRUE, file_ok |-> TRUE,
     decl |-> "Undeclared", args |-> <<[name |-> "ex_inst", val |-> PlainValue]>>]

\* The identity of a frame object.
FrameId(frame) == <<frame.depth, frame.lib>>

NoFrame == <<0, FALSE>>

\* A (frame, lineno) pair of a stack walk.  at stands for the line number:
\* "raise" the raise statement, "call" a call site, "except" the handler's
\* current line.
Entry(frame, at) == [frame |-> frame, at |-> at]

-----------------------------------------------------------------------------
(* Error instances *)

ExcClasses == {"TestError", "EnhancedError", "ValueError"}

\* A class with immutable __bases__ (a builtin).
ImmutableType(cls) == cls = "ValueError"

\* The classes declared with EnhancedErrorMixIn as a base, whose __init__
\* runs EnhancedErrorMixIn.__init__.
DeclaredEnhanced == {"EnhancedError"}

Labels == {"CONTEXT", "NOTE"}

NoCtx == [label |-> "none", content |-> "none"]

ScopeNames == FuncNames \cup {MODULE_SCOPE}

NoExc ==
    [cls |-> "none", args |-> <<>>, tb |-> <<>>, has_contexts |-> FALSE,
     has_context |-> FALSE, contexts |-> [n \in ScopeNames |-> NoCtx]]

\* type(...)(message): EnhancedErrorMixIn.__init__ sets _contexts only when
\* the class's own __init__ calls it.
NewExc(cls, frame) ==
    [cls |-> cls, args |-> <<"boom">>, tb |-> <<Entry(frame, "raise")>>,
     has_contexts |-> cls \in DeclaredEnhanced, has_context |-> FALSE,
     contexts |-> [n \in ScopeNames |-> NoCtx]]

\* The attribute names hasattr finds on an error instance.
Attrs(e, bs) ==
    (IF e.has_context THEN {"_context"} ELSE {})
    \cup (IF e.has_contexts THEN {"_contexts"} ELSE {})
    \cup (IF e.has_contexts /\ e.cls \in bs THEN {"contexts"} ELSE {})
    \cup {"args", "__traceback__"}

HasAttr(e, bs, name) == name \in Attrs(e, bs)

-----------------------------------------------------------------------------
(* The value renderer: create_traceback_detail, lines 309-326 *)

\* What arep holds after the try block.  src names the step that produced
\* it, is_str whether it is a string, printable whether formatting it into
\* a string succeeds.
Rep(src, is_str, printable) == [src |-> src, is_str |-> is_str, printable |-> printable]

ErrorRep == Rep(ARG_ERROR, TRUE, TRUE)

\* RenderValue with the steps isolated: a failing moniker path goes on to
\* repr instead of leaving ARG_ERROR.
RenderValueFallThrough(v) ==
    IF v.probe = "present" /\ v.moniker # "raises"
    THEN Rep("moniker", v.moniker = "str", v.moniker # "unprintable")
    ELSE CASE v.repr = "ok"          -> Rep("repr", TRUE, TRUE)
           [] v.repr = "raises"      -> Rep("type", TRUE, TRUE)
           [] v.repr = "type_raises" -> ErrorRep

RenderValue(v) ==
    IF v.probe = "raises" THEN ErrorRep                 \* hasattr raised: outer except
    ELSE IF v.probe = "present"
         THEN CASE v.moniker = "raises"      -> ErrorRep \* outer except
                [] v.moniker = "str"         -> Rep("moniker", TRUE, TRUE)
                [] v.moniker = "obj"         -> Rep("moniker", FALSE, TRUE)
                [] v.moniker = "unprintable" -> Rep("moniker", FALSE, FALSE)
         ELSE CASE v.repr = "ok"             -> Rep("repr", TRUE, TRUE)
                [] v.repr = "raises"         -> Rep("type", TRUE, TRUE)   \* inner except
                [] v.repr = "type_raises"    -> ErrorRep \* inner except raised: outer except

\* apart = f"{aname}={arep}", outside the try block: it raises when arep
\* cannot be formatted.
FormatRaises(rep) == ~rep.printable

ArgPart(aname, rep) == [name |-> aname, text |-> rep.src]

\* The whole inner loop over frame.args.
RenderArgs(args) ==
    [raised |-> \E i \in 1..Len(args) : FormatRaises(RenderValue(args[i].val)),
     parts  |-> [i \in 1..Len(args) |-> ArgPart(args[i].name, RenderValue(args[i].val))]]

-----------------------------------------------------------------------------
(* collect_stack_frames *)

NoLines == [some |-> FALSE, owner |-> NoFrame, scope |-> "None"]

\* The numbered source of a frame's function (inspect.getsourcelines).
Excerpt(frame) == [some |-> TRUE, owner |-> FrameId(frame), scope |-> frame.name]

Unbound == [some |-> FALSE, owner |-> NoFrame, scope |-> "unbound"]

\* Line 251: the frame's source is read only if this holds.
SourceAccessible(frame) == frame.name # MODULE_SCOPE /\ frame.file_ok

\* Lines 208-211: walk outward from calling_frame, inserting at the front,
\* up to and including the first module-scope frame.  chain is the stack as
\* walk_stack yields it, innermost first.
RECURSIVE WalkStack(_, _)
WalkStack(chain, context_frames) ==
    IF chain = <<>> THEN context_frames
    ELSE IF Head(chain).frame.name = MODULE_SCOPE
         THEN <<Head(chain)>> \o context_frames
         ELSE WalkStack(Tail(chain), <<Head(chain)>> \o context_frames)

\* ContextFrames with pop(0): the oldest frame removed instead of the last.
ContextFramesPopFirst(chain) == Tail(WalkStack(chain, <<>>))

\* Lines 206-213: the handler-side frames, oldest first, less the one pop()
\* removes: the last, which is calling_frame.
ContextFrames(chain) == Pop(WalkStack(chain, <<>>))

\* FullStackFrames without the reverse() of line 221.
FullStackFramesNotReversed(chain, tb) == ContextFrames(chain) \o tb

\* Lines 215-221: the merged, reversed (frame, lineno) list.
FullStackFrames(chain, tb) == Reverse(ContextFrames(chain) \o tb)

\* Lines 234-244: every parameter's value, or "<not found>" (a string).
CodeArgs(frame) == frame.args

\* Lines 225-268 for one (frame, lineno): the FrameDetail and the value of
\* the local fmt_code_lines after it.  fmt_code_lines is assigned only in
\* the branch that reads the source.
FmtAfter(entry, fmt_code_lines) ==
    IF SourceAccessible(entry.frame) THEN Excerpt(entry.frame) ELSE fmt_code_lines

FrameDetail(entry, fmt_code_lines) ==
    [name       |-> entry.frame.name,
     line_no    |-> entry.at,
     line_code  |-> IF SourceAccessible(entry.frame) THEN "source" ELSE OBFUSCATED,
     filename   |-> IF entry.frame.file_ok THEN "file.py" ELSE "<string>",
     co_module  |-> entry.frame.decl,
     args       |-> CodeArgs(entry.frame),
     code_lines |-> FmtAfter(entry, fmt_code_lines),
     frame      |-> FrameId(entry.frame)]

\* The loop of lines 225-268.  Reading fmt_code_lines before any frame has
\* assigned it raises UnboundLocalError.
RECURSIVE FrameDetailsLoop(_, _, _)
FrameDetailsLoop(full, fmt_code_lines, frame_details_list) ==
    IF full = <<>> THEN [raised |-> "none", frames |-> frame_details_list]
    ELSE LET fmt == FmtAfter(Head(full), fmt_code_lines) IN
         IF fmt = Unbound
         THEN [raised |-> "UnboundLocalError", frames |-> frame_details_list]
         ELSE FrameDetailsLoop(Tail(full), fmt,
                  Append(frame_details_list, FrameDetail(Head(full), fmt_code_lines)))

collect_stack_frames(chain, tb) ==
    FrameDetailsLoop(FullStackFrames(chain, tb), Unbound, <<>>)

-----------------------------------------------------------------------------
(* create_traceback_detail: the per-frame policy, lines 289-299 *)

\* ResolvePolicy without the check of line 296 that the module's
\* declaration is a valid policy.
ResolvePolicyUnchecked(override, decl, expand_n, max_full) ==
    LET default == IF expand_n > 0 /\ max_full > 0 THEN Full ELSE Brief
    IN  IF override = None
        THEN IF decl # "NoModule" /\ decl # "Undeclared" THEN decl ELSE default
        ELSE override

ResolvePolicy(override, decl, expand_n, max_full) ==
    LET default == IF expand_n > 0 /\ max_full > 0 THEN Full ELSE Brief
    IN  IF override = None
        THEN IF decl # "NoModule" /\ decl # "Undeclared"
                  /\ decl \in VALID_MEMBER_TRACE_POLICY
             THEN decl
             ELSE default
        ELSE override

\* Lines 303-305: the context looked up under the attribute "context".
ContextFor(e, bs, name) ==
    IF HasAttr(e, bs, "context") THEN e.contexts[name] ELSE NoCtx

\* EntryBudgets reading each budget from the other's configuration value.
EntryBudgetsCrossed(config) ==
    [max_full_display |-> config.expand_n, expand_first_n |-> config.max_full]

\* Lines 275-276: the budgets of a build, read from the configuration on
\* entry.
EntryBudgets(config) ==
    [max_full_display |-> config.max_full, expand_first_n |-> config.expand_n]

\* TakesCode without the policy test of line 333.
TakesCodeAnyPolicy(policy, frame) == frame.code_lines # NoLines

\* Lines 333-338: whether the frame's excerpt is taken and the budgets
\* decremented.
TakesCode(policy, frame) == policy = Full /\ frame.code_lines # NoLines

TraceDetail(e, bs, frame, policy) ==
    [origin  |-> [file |-> frame.filename, lineno |-> frame.line_no, scope |-> frame.name],
     call    |-> [scope |-> frame.name, parts |-> RenderArgs(frame.args).parts],
     code    |-> IF TakesCode(policy, frame) THEN <<frame.code_lines>> ELSE <<>>,
     context |-> ContextFor(e, bs, frame.name),
     frame   |-> frame.frame]

\* repr of a string argument of the error.
ReprOf(a) == <<"repr", a>>

TracebackDetail(e, traces) ==
    [extype |-> e.cls, exargs |-> [i \in 1..Len(e.args) |-> ReprOf(e.args[i])],
     traces |-> traces]

-----------------------------------------------------------------------------
(* format_traceback_detail, lines 389-412 *)

Line(kind, frame) == [kind |-> kind, frame |-> frame]

\* len(ntrace.call): the two parentheses of f"{frame.name}({rep_args})" and
\* whatever the arguments add.
CallLen(call) == 2 + Len(call.parts)

TraceLines(ntrace) ==
    <<Line("file", ntrace.frame)>>
    \o (IF CallLen(ntrace.call) > 0
        THEN <<Line("call", ntrace.frame)>>
             \o (IF Len(ntrace.code) > 0
                 THEN <<Line("blank", ntrace.frame)>>
                      \o [i \in 1..Len(ntrace.code) |-> Line("code", ntrace.frame)]
                 ELSE <<>>)
        ELSE <<>>)
    \o <<Line("blank", ntrace.frame)>>

RECURSIVE FrameBlocks(_)
FrameBlocks(traces) ==
    IF traces = <<>> THEN <<>>
    ELSE TraceLines(Head(traces)) \o FrameBlocks(Tail(traces))

format_traceback_detail(tbdetail) ==
    <<Line("header", NoFrame), Line("banner", NoFrame)>> \o FrameBlocks(tbdetail.traces)

-----------------------------------------------------------------------------
(* The program (Spec) *)

\* No response is being examined.
NoRequest ==
    /\ resp_code = 0
    /\ request = [url |-> None, context |-> None]
    /\ error_type = None
    /\ err_msg = <<>>

Idle ==
    /\ api = "none"
    /\ stack_frames = <<>>
    /\ idx = 0
    /\ max_full_display = 0
    /\ expand_first_n = 0
    /\ co_format_policy = None
    /\ etraces = <<>>
    /\ lines = <<>>
    /\ failure = "none"

Init ==
    /\ cfg = TRACEBACK_CONFIG
    /\ bases = DeclaredEnhanced
    /\ \E root \in RootNames : stack = <<Frame(root, 1)>>
    /\ pc = "running"
    /\ exc = NoExc
    /\ argv = <<>>
    /\ arep = ErrorRep
    /\ rep_args_parts = <<>>
    /\ NoRequest
    /\ full_rendered = 0
    /\ Idle

buildVars == <<stack_frames, idx, max_full_display, expand_first_n, co_format_policy,
               etraces, lines>>

argVars == <<argv, arep, rep_args_parts>>

httpVars == <<resp_code, request, error_type, err_msg>>

\* The running function calls function name.
Call(name) ==
    /\ pc = "running"
    /\ Len(stack) < MaxDepth
    /\ stack' = Append(stack, Frame(name, Len(stack) + 1))
    /\ UNCHANGED <<cfg, bases, pc, exc, api, failure>>
    /\ UNCHANGED buildVars
    /\ UNCHANGED argVars
    /\ UNCHANGED httpVars
    /\ UNCHANGED full_rendered

\* The running function raises cls("boom"): the traceback starts with its
\* frame.
Raise(cls) ==
    /\ pc = "running"
    /\ exc' = NewExc(cls, stack[Len(stack)])
    /\ pc' = "propagating"
    /\ UNCHANGED <<cfg, bases, stack, api, failure>>
    /\ UNCHANGED buildVars
    /\ UNCHANGED argVars
    /\ UNCHANGED httpVars
    /\ UNCHANGED full_rendered

\* The function the error is in does not handle it: its frame is left and
\* the caller's frame is put in front of the traceback.
Unwind ==
    /\ pc = "propagating"
    /\ Len(stack) > 1
    /\ stack' = Pop(stack)
    /\ exc' = [exc EXCEPT !.tb = <<Entry(stack[Len(stack) - 1], "call")>> \o @]
    /\ UNCHANGED <<cfg, bases, pc, api, failure>>
    /\ UNCHANGED buildVars
    /\ UNCHANGED argVars
    /\ UNCHANGED httpVars
    /\ UNCHANGED full_rendered

\* The function the error is in handles it (its except clause is entered).
Catch ==
    /\ pc = "propagating"
    /\ pc' = "handling"
    /\ UNCHANGED <<cfg, bases, stack, exc, api, failure>>
    /\ UNCHANGED buildVars
    /\ UNCHANGED argVars
    /\ UNCHANGED httpVars
    /\ UNCHANGED full_rendered

\* enhance_exception(exc, content, label) called by the handler, with
\* EnhancedErrorMixIn.add_context: lines 349-369 and 185-198.
enhance_exception(content, label) ==
    /\ pc = "handling"
    /\ LET cls == exc.cls
           caller_func_name == stack[Len(stack)].name     \* inspect.stack()[2]
       IN  IF cls \notin bases /\ ImmutableType(cls)
           THEN \* line 360 raises TypeError
                /\ pc' = "failed"
                /\ failure' = "TypeError"
                /\ UNCHANGED <<bases, exc>>
           ELSE /\ bases' = bases \cup {cls}
                /\ IF exc.has_contexts
                   THEN /\ exc' = [exc EXCEPT
                                     !.has_context = TRUE,
                                     !.contexts[caller_func_name] =
                                         [label |-> label, content |-> content]]
                        /\ UNCHANGED <<pc, failure>>
                   ELSE \* line 193: self._contexts raises AttributeError
                        /\ exc' = [exc EXCEPT !.has_context = TRUE]
                        /\ pc' = "failed"
                        /\ failure' = "AttributeError"
    /\ UNCHANGED <<cfg, stack, api>>
    /\ UNCHANGED buildVars
    /\ UNCHANGED argVars
    /\ UNCHANGED httpVars
    /\ UNCHANGED full_rendered

\* The stack as traceback.walk_stack(calling_frame) yields it: innermost
\* first, the handler at its current line, its callers at their call sites.
HandlerChain ==
    [i \in 1..Len(stack) |->
        Entry(stack[Len(stack) + 1 - i], IF i = 1 THEN "except" ELSE "call")]

\* calling_frame = inspect.currentframe().f_back (line 282): the handler's
\* frame when it calls create_traceback_detail itself, the frame of
\* format_exception when it calls that.
CallingChain(how) ==
    IF how = "format"
    THEN <<Entry(FormatExceptionFrame(Len(stack) + 1), "call")>> \o HandlerChain
    ELSE HandlerChain

\* The handler calls create_traceback_detail(exc) (how = "direct") or
\* format_exception(exc) (how = "format"): lines 275-284.
StartBuild(how) ==
    /\ pc = "handling"
    /\ full_rendered < MaxFullRendered
    /\ api' = how
    /\ LET got == collect_stack_frames(CallingChain(how), exc.tb) IN
         IF got.raised # "none"
         THEN /\ pc' = "failed"
              /\ failure' = got.raised
              /\ UNCHANGED buildVars
         ELSE /\ pc' = "building"
              /\ stack_frames' = got.frames
              /\ idx' = 1
              /\ max_full_display' = EntryBudgets(cfg).max_full_display
              /\ expand_first_n' = EntryBudgets(cfg).expand_first_n
              /\ UNCHANGED <<co_format_policy, etraces, lines, failure>>
    /\ UNCHANGED <<cfg, bases, stack, exc>>
    /\ UNCHANGED argVars
    /\ UNCHANGED httpVars
    /\ UNCHANGED full_rendered

\* One pass of the loop over stack_frames: lines 286-342.
BuildStep ==
    /\ pc = "building"
    /\ idx <= Len(stack_frames)
    /\ LET frame == stack_frames[idx]
           policy == ResolvePolicy(cfg.override, frame.co_module,
                                   expand_first_n, max_full_display)
       IN  /\ co_format_policy' = policy
           /\ IF RenderArgs(frame.args).raised
              THEN \* line 325 raises out of create_traceback_detail
                   /\ pc' = "failed"
                   /\ failure' = "FormatError"
                   /\ UNCHANGED <<idx, max_full_display, expand_first_n, etraces,
                                  full_rendered>>
              ELSE /\ etraces' = Append(etraces, TraceDetail(exc, bases, frame, policy))
                   /\ full_rendered' =
                          IF TakesCode(policy, frame) THEN full_rendered + 1
                          ELSE full_rendered
                   /\ max_full_display' =
                          IF TakesCode(policy, frame) THEN max_full_display - 1
                          ELSE max_full_display
                   /\ expand_first_n' =
                          IF TakesCode(policy, frame) THEN expand_first_n - 1
                          ELSE expand_first_n
                   /\ idx' = idx + 1
                   /\ UNCHANGED <<pc, failure>>
    /\ UNCHANGED <<cfg, bases, stack, exc, api, stack_frames, lines>>
    /\ UNCHANGED argVars
    /\ UNCHANGED httpVars

\* The loop is over: create_traceback_detail returns the TracebackDetail
\* (lines 344-346) and format_exception renders it (lines 384-386).
Finish ==
    /\ pc = "building"
    /\ idx > Len(stack_frames)
    /\ IF api = "format"
       THEN /\ lines' = format_traceback_detail(TracebackDetail(exc, etraces))
            /\ pc' = "rendered"
       ELSE /\ lines' = <<>>
            /\ pc' = "built"
    /\ UNCHANGED <<cfg, bases, stack, exc, api, stack_frames, idx, max_full_display,
                   expand_first_n, co_format_policy, etraces, failure>>
    /\ UNCHANGED argVars
    /\ UNCHANGED httpVars
    /\ UNCHANGED full_rendered

\* The handler is done with the error and its function runs on.
Resume ==
    /\ pc \in {"built", "rendered"}
    /\ pc' = "running"
    /\ exc' = NoExc
    /\ api' = "none"
    /\ stack_frames' = <<>>
    /\ idx' = 0
    /\ max_full_display' = 0
    /\ expand_first_n' = 0
    /\ co_format_policy' = None
    /\ etraces' = <<>>
    /\ lines' = <<>>
    /\ UNCHANGED <<cfg, bases, stack, failure>>
    /\ UNCHANGED argVars
    /\ UNCHANGED httpVars
    /\ UNCHANGED full_rendered

Next ==
    \/ \E name \in FuncNames : Call(name)
    \/ \E cls \in ExcClasses : Raise(cls)
    \/ Unwind
    \/ Catch
    \/ \E label \in Labels : enhance_exception("extra", label)
    \/ \E how \in {"direct", "format"} : StartBuild(how)
    \/ BuildStep
    \/ Finish
    \/ Resume

Spec == Init /\ [][Next]_vars

\* The document create_traceback_detail returned.
Built == pc \in {"built", "rendered"}

-----------------------------------------------------------------------------
(* create_traceback_detail and format_exception on drawn frame lists       *)
(* (SpecBuild)                                                             *)

Overrides == {None, Brief, Full, Hide, "Bogus"}

MaxFullChoices == (0..MaxBudget) \cup {TRACEBACK_MAX_FULL_DISPLAY}

ExpandChoices == (0..MaxBudget) \cup {TRACEBACK_EXPAND_FIRST_N}

Configs == [override : Overrides, max_full : MaxFullChoices, expand_n : ExpandChoices]

\* The (frame, lineno) lists of n frames, innermost first: any function of
\* the program in a module with any declaration.
DrawnFrame(name, decl, depth) == [Frame(name, depth) EXCEPT !.decl = decl]

DrawnStacks(n) ==
    {[i \in 1..n |-> Entry(DrawnFrame(names[i], decls[i], n + 1 - i),
                           IF i = 1 THEN "raise" ELSE "call")] :
        names \in [1..n -> FuncNames], decls \in [1..n -> Decls]}

\* What collect_stack_frames returned for some stack: the state at line 286.
InitBuild ==
    /\ cfg \in Configs
    /\ bases = DeclaredEnhanced
    /\ stack = <<>>
    /\ pc = "building"
    /\ api = "format"
    /\ \E n \in 0..MaxFrames : \E full \in DrawnStacks(n) :
         LET got == FrameDetailsLoop(full, Unbound, <<>>) IN
           /\ got.raised = "none"
           /\ stack_frames = got.frames
           /\ exc = [NewExc("TestError", Frame("f", 1)) EXCEPT !.tb = Reverse(full)]
    /\ idx = 1
    /\ max_full_display = EntryBudgets(cfg).max_full_display
    /\ expand_first_n = EntryBudgets(cfg).expand_first_n
    /\ co_format_policy = None
    /\ etraces = <<>>
    /\ lines = <<>>
    /\ failure = "none"
    /\ argv = <<>>
    /\ arep = ErrorRep
    /\ rep_args_parts = <<>>
    /\ NoRequest
    /\ full_rendered = 0

NextBuild == BuildStep \/ Finish

SpecBuild == InitBuild /\ [][NextBuild]_vars

-----------------------------------------------------------------------------
(* The value renderer on drawn arguments (SpecArgs)                        *)

DrawnArgs(n) == {[i \in 1..n |-> [name |-> "a", val |-> vals[i]]] : vals \in [1..n -> Values]}

\* The state at line 307 for a frame with the drawn arguments.
InitArgs ==
    /\ cfg = TRACEBACK_CONFIG
    /\ bases = DeclaredEnhanced
    /\ stack = <<>>
    /\ pc = "args"
    /\ exc = NoExc
    /\ \E n \in 0..MaxArgs : argv \in DrawnArgs(n)
    /\ arep = ErrorRep
    /\ rep_args_parts = <<>>
    /\ NoRequest
    /\ full_rendered = 0
    /\ Idle

\* One pass of the loop over frame.args: lines 308-326.  idx counts the
\* arguments rendered.
RenderArg ==
    /\ pc = "args"
    /\ idx < Len(argv)
    /\ LET aval == argv[idx + 1].val
           aname == argv[idx + 1].name
       IN  /\ arep' = RenderValue(aval)
           /\ IF FormatRaises(RenderValue(aval))
              THEN /\ pc' = "failed"
                   /\ failure' = "FormatError"
                   /\ UNCHANGED <<idx, rep_args_parts>>
              ELSE /\ rep_args_parts' = Append(rep_args_parts, ArgPart(aname, RenderValue(aval)))
                   /\ idx' = idx + 1
                   /\ UNCHANGED <<pc, failure>>
    /\ UNCHANGED <<cfg, bases, stack, exc, api, stack_frames, max_full_display,
                   expand_first_n, co_format_policy, etraces, lines, argv>>
    /\ UNCHANGED httpVars
    /\ UNCHANGED full_rendered

\* Line 328: the parts are joined.
JoinArgs ==
    /\ pc = "args"
    /\ idx = Len(argv)
    /\ pc' = "joined"
    /\ UNCHANGED <<cfg, bases, stack, exc, api, stack_frames, idx, max_full_display,
                   expand_first_n, co_format_policy, etraces, lines, failure>>
    /\ UNCHANGED argVars
    /\ UNCHANGED httpVars
    /\ UNCHANGED full_rendered

NextArgs == RenderArg \/ JoinArgs

SpecArgs == InitArgs /\ [][NextArgs]_vars

-----------------------------------------------------------------------------
(* The HTTP status lookup (SpecHttp)                                       *)

\* raising.py lines 11-61: the class raised for a status code.
STATUS_TO_EXCEPTION_TABLE ==
    300 :> "HttpRedirectMultipleChoicesError" @@
    301 :> "HttpRedirectMovedPermanentlyError" @@
    302 :> "HttpRedirectMovedTemporarilyError" @@
    303 :> "HttpRedirectSeeOtherError" @@
    304 :> "HttpRedirectNotModifiedError" @@
    305 :> "HttpRedirectUseProxyError" @@
    306 :> "HttpRedirectSwitchProxyError" @@
    307 :> "HttpRedirectTemporaryError" @@
    308 :> "HttpRedirectPermanentError" @@
    400 :> "HttpBadRequestError" @@
    401 :> "HttpUnAuthorizedError" @@
    402 :> "HttpPaymentRequiredError" @@
    403 :> "HttpForbiddenError" @@
    404 :> "HttpNotFoundError" @@
    405 :> "HttpMethodNotAllowedError" @@
    406 :> "HttpNotAcceptableError" @@
    407 :> "HttpProxyAuthenticationRequiredError" @@
    408 :> "HttpRequestTimeoutError" @@
    409 :> "HttpConflictError" @@
    410 :> "HttpGoneError" @@
    411 :> "HttpLengthRequiredError" @@
    412 :> "HttpPreconditionRequiredError" @@
    413 :> "HttpPayloadTooLargeError" @@
    414 :> "HttpUriTooLongError" @@
    415 :> "HttpUnSupportedMediaTypeError" @@
    416 :> "HttpRangeNotSatisfiableError" @@
    417 :> "HttpExpectationFailedError" @@
    418 :> "HttpImATeapotError" @@
    421 :> "HttpMisdirectedRequestError" @@
    422 :> "HttpUnprocessableContentError" @@
    423 :> "HttpLockedError" @@
    424 :> "HttpFailedDependencyError" @@
    425 :> "HttpTooEarlyError" @@
    426 :> "HttpUpgradeRequiredError" @@
    428 :> "HttpPreconditionRequiredError" @@
    429 :> "HttpTooManyRequestsError" @@
    431 :> "HttpHeaderFieldsTooLargeError" @@
    451 :> "HttpUnavailableForLegalReasonsError" @@
    500 :> "HttpInternalServerError" @@
    501 :> "HttpNotImplementedError" @@
    502 :> "HttpBadGatewayError" @@
    503 :> "HttpServiceUnavailableError" @@
    504 :> "HttpGatewayTimeoutError" @@
    505 :> "HttpVersionNotSupportedError" @@
    506 :> "HttpCircularReferenceError" @@
    507 :> "HttpInsufficientStorageError" @@
    508 :> "HttpLoopDetectedError" @@
    510 :> "HttpNotExtendedError" @@
    511 :> "HttpNetworkAuthenticationRequiredError"

\* exceptions.py lines 150-417: the base class each HTTP error class is
\* declared with (http.client.HTTPException derives from Exception).
BaseClass ==
    "HTTPException" :> "Exception" @@
    "HttpResponse3xxError" :> "HTTPException" @@
    "HttpRedirectMultipleChoicesError" :> "HttpResponse3xxError" @@
    "HttpRedirectMovedPermanentlyError" :> "HttpResponse3xxError" @@
    "HttpRedirectMovedTemporarilyError" :> "HttpResponse3xxError" @@
    "HttpRedirectSeeOtherError" :> "HttpResponse3xxError" @@
    "HttpRedirectNotModifiedError" :> "HttpResponse3xxError" @@
    "HttpRedirectUseProxyError" :> "HttpResponse3xxError" @@
    "HttpRedirectSwitchProxyError" :> "HttpResponse3xxError" @@
    "HttpRedirectTemporaryError" :> "HttpResponse3xxError" @@
    "HttpRedirectPermanentError" :> "HttpResponse3xxError" @@
    "HttpResponse4xxError" :> "HTTPException" @@
    "HttpBadRequestError" :> "HttpResponse4xxError" @@
    "HttpUnAuthorizedError" :> "HttpResponse4xxError" @@
    "HttpPaymentRequiredError" :> "HttpResponse4xxError" @@
    "HttpForbiddenError" :> "HttpResponse4xxError" @@
    "HttpNotFoundError" :> "HttpResponse4xxError" @@
    "HttpMethodNotAllowedError" :> "HttpResponse4xxError" @@
    "HttpNotAcceptableError" :> "HttpResponse4xxError" @@
    "HttpProxyAuthenticationRequiredError" :> "HttpResponse4xxError" @@
    "HttpRequestTimeoutError" :> "HttpResponse4xxError" @@
    "HttpConflictError" :> "HttpResponse4xxError" @@
    "HttpGoneError" :> "HttpResponse4xxError" @@
    "HttpLengthRequiredError" :> "HttpResponse4xxError" @@
    "HttpPreConditionFailedError" :> "HttpResponse4xxError" @@
    "HttpPayloadTooLargeError" :> "HttpResponse4xxError" @@
    "HttpUriTooLongError" :> "HttpResponse4xxError" @@
    "HttpUnSupportedMediaTypeError" :> "HttpResponse4xxError" @@
    "HttpRangeNotSatisfiableError" :> "HttpResponse4xxError" @@
    "HttpExpectationFailedError" :> "HttpResponse4xxError" @@
    "HttpImATeapotError" :> "HttpResponse4xxError" @@
    "HttpMisdirectedRequestError" :> "HttpResponse4xxError" @@
    "HttpUnprocessableContentError" :> "HttpResponse4xxError" @@
    "HttpLockedError" :> "HttpResponse4xxError" @@
    "HttpFailedDependencyError" :> "HttpResponse4xxError" @@
    "HttpTooEarlyError" :> "HttpResponse4xxError" @@
    "HttpUpgradeRequiredError" :> "HttpResponse4xxError" @@
    "HttpPreconditionRequiredError" :> "HttpResponse4xxError" @@
    "HttpTooManyRequestsError" :> "HttpResponse4xxError" @@
    "HttpHeaderFieldsTooLargeError" :> "HttpResponse4xxError" @@
    "HttpUnavailableForLegalReasonsError" :> "HttpResponse4xxError" @@
    "HttpResponse5xxError" :> "HTTPException" @@
    "HttpInternalServerError" :> "HttpResponse5xxError" @@
    "HttpNotImplementedError" :> "HttpResponse5xxError" @@
    "HttpBadGatewayError" :> "HttpResponse5xxError" @@
    "HttpServiceUnavailableError" :> "HttpResponse5xxError" @@
    "HttpGatewayTimeoutError" :> "HttpResponse5xxError" @@
    "HttpVersionNotSupportedError" :> "HttpResponse5xxError" @@
    "HttpCircularReferenceError" :> "HttpResponse5xxError" @@
    "HttpInsufficientStorageError" :> "HttpResponse5xxError" @@
    "HttpLoopDetectedError" :> "HttpResponse5xxError" @@
    "HttpNotExtendedError" :> "HttpResponse5xxError" @@
    "HttpNetworkAuthenticationRequiredError" :> "HttpResponse5xxError" @@
    "HttpOtherCodeError" :> "HTTPException"

\* exceptions.py lines 155-412: the status code N of each docstring "Raise(d)
\* when the HTTPStatus.N status code is received".
DocumentedStatus ==
    "HttpRedirectMultipleChoicesError" :> 300 @@
    "HttpRedirectMovedPermanentlyError" :> 301 @@
    "HttpRedirectMovedTemporarilyError" :> 302 @@
    "HttpRedirectSeeOtherError" :> 303 @@
    "HttpRedirectNotModifiedError" :> 304 @@
    "HttpRedirectUseProxyError" :> 305 @@
    "HttpRedirectSwitchProxyError" :> 306 @@
    "HttpRedirectTemporaryError" :> 307 @@
    "HttpRedirectPermanentError" :> 308 @@
    "HttpBadRequestError" :> 400 @@
    "HttpUnAuthorizedError" :> 401 @@
    "HttpPaymentRequiredError" :> 402 @@
    "HttpForbiddenError" :> 403 @@
    "HttpNotFoundError" :> 404 @@
    "HttpMethodNotAllowedError" :> 405 @@
    "HttpNotAcceptableError" :> 406 @@
    "HttpProxyAuthenticationRequiredError" :> 407 @@
    "HttpRequestTimeoutError" :> 408 @@
    "HttpConflictError" :> 409 @@
    "HttpGoneError" :> 410 @@
    "HttpLengthRequiredError" :> 411 @@
    "HttpPreConditionFailedError" :> 412 @@
    "HttpPayloadTooLargeError" :> 413 @@
    "HttpUriTooLongError" :> 414 @@
    "HttpUnSupportedMediaTypeError" :> 415 @@
    "HttpRangeNotSatisfiableError" :> 416 @@
    "HttpExpectationFailedError" :> 417 @@
    "HttpImATeapotError" :> 418 @@
    "HttpMisdirectedRequestError" :> 421 @@
    "HttpUnprocessableContentError" :> 422 @@
    "HttpLockedError" :> 423 @@
    "HttpFailedDependencyError" :> 424 @@
    "HttpTooEarlyError" :> 425 @@
    "HttpUpgradeRequiredError" :> 426 @@
    "HttpPreconditionRequiredError" :> 428 @@
    "HttpTooManyRequestsError" :> 429 @@
    "HttpHeaderFieldsTooLargeError" :> 431 @@
    "HttpUnavailableForLegalReasonsError" :> 451 @@
    "HttpInternalServerError" :> 500 @@
    "HttpNotImplementedError" :> 501 @@
    "HttpBadGatewayError" :> 502 @@
    "HttpServiceUnavailableError" :> 503 @@
    "HttpGatewayTimeoutError" :> 504 @@
    "HttpVersionNotSupportedError" :> 505 @@
    "HttpCircularReferenceError" :> 506 @@
    "HttpInsufficientStorageError" :> 507 @@
    "HttpLoopDetectedError" :> 508 @@
    "HttpNotExtendedError" :> 510 @@
    "HttpNetworkAuthenticationRequiredError" :> 511

\* issubclass(cls, base) along the declared bases.
RECURSIVE IsSubclass(_, _)
IsSubclass(cls, base) ==
    IF cls = base THEN TRUE
    ELSE IF cls \in DOMAIN BaseClass THEN IsSubclass(BaseClass[cls], base)
    ELSE FALSE

\* raising.py lines 64-78: the message, one record per line.
format_http_error_message(code, url, context) ==
    <<[kind |-> "error", code |-> code]>>
    \o (IF url # None THEN <<[kind |-> "url", text |-> url]>> ELSE <<>>)
    \o (IF context # None THEN <<[kind |-> "context", text |-> context]>> ELSE <<>>)

\* Lines 86-93 alone: the class of the hundred-range, the table not consulted.
ErrorTypeByRangeOnly(code) ==
    IF code >= 300 /\ code <= 399 THEN "HttpResponse3xxError"
    ELSE IF code >= 400 /\ code <= 499 THEN "HttpResponse4xxError"
    ELSE IF code >= 500 /\ code <= 599 THEN "HttpResponse5xxError"
    ELSE "HTTPException"

\* raising.py lines 84-93: the class chosen for a code of 300 or more.
ErrorType(code) ==
    IF code \in DOMAIN STATUS_TO_EXCEPTION_TABLE THEN STATUS_TO_EXCEPTION_TABLE[code]
    ELSE IF code >= 300 /\ code <= 399 THEN "HttpResponse3xxError"
    ELSE IF code >= 400 /\ code <= 499 THEN "HttpResponse4xxError"
    ELSE IF code >= 500 /\ code <= 599 THEN "HttpResponse5xxError"
    ELSE "HTTPException"

HttpCodes == 0..MaxCode

Requests == [url : {None, "url"}, context : {None, "context"}]

\* A caller about to pass a response code to raise_for_http_status.
InitHttp ==
    /\ cfg = TRACEBACK_CONFIG
    /\ bases = DeclaredEnhanced
    /\ stack = <<>>
    /\ pc = "http"
    /\ exc = NoExc
    /\ argv = <<>>
    /\ arep = ErrorRep
    /\ rep_args_parts = <<>>
    /\ Idle
    /\ resp_code \in HttpCodes
    /\ request \in Requests
    /\ error_type = None
    /\ err_msg = <<>>
    /\ full_rendered = 0

\* raising.py lines 81-99.
raise_for_http_status ==
    /\ pc = "http"
    /\ IF resp_code >= 300
       THEN /\ error_type' = ErrorType(resp_code)
            /\ err_msg' = format_http_error_message(resp_code, request.url, request.context)
            /\ pc' = "raised"
       ELSE /\ pc' = "returned"
            /\ UNCHANGED <<error_type, err_msg>>
    /\ UNCHANGED <<cfg, bases, stack, exc, api, failure, resp_code, request>>
    /\ UNCHANGED buildVars
    /\ UNCHANGED argVars
    /\ UNCHANGED full_rendered

NextHttp == raise_for_http_status

SpecHttp == InitHttp /\ [][NextHttp]_vars

-----------------------------------------------------------------------------
(* Properties *)

\* The function that raised the error, and the number of nested calls
\* between the handler and it.
Raiser == exc.tb[Len(exc.tb)].frame

NestedCalls == Len(exc.tb) - 1

RaisedInCallee == Len(exc.tb) >= 2

\* The handler's function was called from module scope.
HandlerCalledFromModuleScope ==
    /\ Len(stack) >= 2
    /\ stack[Len(stack) - 1].name = MODULE_SCOPE
    /\ stack[Len(stack)].name # MODULE_SCOPE

DocFrames == {etraces[i].frame : i \in 1..Len(etraces)}

\* C1: for an error raised in a called function and handled by a caller,
\* no call-stack frame is in the built document twice, whichever of
\* create_traceback_detail and format_exception the handler calls.
C1_NoFrameTwice ==
    (Built /\ RaisedInCallee) =>
        \A i, j \in 1..Len(etraces) : i # j => etraces[i].frame # etraces[j].frame

\* C2 as claimed: with N nested calls below a handler called from module
\* scope the document has exactly N+1 frames and no module-scope frame.
C2_ExactlyNPlusOneFrames ==
    (Built /\ HandlerCalledFromModuleScope) =>
        /\ Len(etraces) = NestedCalls + 1
        /\ \A i \in 1..Len(etraces) : etraces[i].origin.scope # MODULE_SCOPE

\* The (frame, lineno) pair of calling_frame in the handler-side walk.
IsCallingEntry(ntrace) ==
    IF api = "format"
    THEN ntrace.frame = FrameId(FormatExceptionFrame(Len(stack) + 1))
    ELSE ntrace.frame = FrameId(stack[Len(stack)]) /\ ntrace.origin.lineno = "except"

\* C2 as amended: with N nested calls below a handler called from module
\* scope the document holds exactly N+2 distinct frames (N+2 entries when
\* the handler calls create_traceback_detail itself): the handler-side walk
\* stops at the module-scope frame and keeps it, as the last entry; the
\* frame it discards is calling_frame, the innermost one it walked.
C2_ModuleFrameKept ==
    (Built /\ HandlerCalledFromModuleScope) =>
        /\ Cardinality(DocFrames) = NestedCalls + 2
        /\ api = "direct" => Len(etraces) = NestedCalls + 2
        /\ etraces[Len(etraces)].origin.scope = MODULE_SCOPE
        /\ \A i \in 1..Len(etraces) : ~IsCallingEntry(etraces[i])

C2_Witness ==
    /\ pc = "built"
    /\ HandlerCalledFromModuleScope
    /\ NestedCalls = 2
    /\ Len(etraces) = 4

\* C3 as claimed: the document has at least one frame and its last frame's
\* scope name is the function that raised the error.
C3_LastFrameIsRaiser ==
    Built => /\ Len(etraces) >= 1
             /\ etraces[Len(etraces)].origin.scope = Raiser.name

\* C3 as amended: the frames are in inner-to-outer order (most recent call
\* first): the document has at least one frame, its first frame is the
\* frame that raised the error, at its raise statement, and no later entry
\* is deeper on the call stack than an earlier one.
C3_FirstFrameIsRaiser ==
    Built => /\ Len(etraces) >= 1
             /\ etraces[1].frame = FrameId(Raiser)
             /\ etraces[1].origin.scope = Raiser.name
             /\ etraces[1].origin.lineno = "raise"
             /\ \A i, j \in 1..Len(etraces) :
                    i < j => etraces[i].frame[1] >= etraces[j].frame[1]

C3_Witness ==
    /\ Built
    /\ RaisedInCallee
    /\ Len(etraces) >= 3
    /\ etraces[1].origin.scope = "f"
    /\ etraces[Len(etraces)].origin.scope = MODULE_SCOPE

\* C4: with the global override Hide, the output of format_exception is the
\* header line and the banner line only, with no frame block.
C4_HideOmitsEveryFrame ==
    (pc = "rendered" /\ cfg.override = Hide) =>
        /\ Len(lines) = 2
        /\ lines[1].kind = "header"
        /\ lines[2].kind = "banner"

\* The policy the precedence rules give a frame.
ClaimedPolicy(override, decl, expand_n, max_full) ==
    IF override # None THEN override
    ELSE IF decl \in {Brief, Full, Hide} THEN decl
    ELSE IF expand_n > 0 /\ max_full > 0 THEN Full
    ELSE Brief

\* C5: each frame's policy is the global override when that is not None,
\* else the module's declaration when it is Brief, Full or Hide, else Full
\* when both budgets are above zero and Brief otherwise; Hide comes from
\* the override or the declaration only.
C5_PolicyPrecedence ==
    [][(pc = "building" /\ idx <= Len(stack_frames)) =>
          LET decl == stack_frames[idx].co_module IN
            /\ co_format_policy' =
                   ClaimedPolicy(cfg.override, decl, expand_first_n, max_full_display)
            /\ co_format_policy' = Hide => (cfg.override = Hide \/ decl = Hide)]_vars

C5_Witness ==
    /\ pc = "building"
    /\ idx = 3
    /\ cfg.override = None
    /\ cfg.expand_n = 1
    /\ stack_frames[1].co_module = "Undeclared"
    /\ stack_frames[2].co_module = "Bogus"
    /\ Len(etraces[1].code) > 0
    /\ co_format_policy = Brief

\* The frame just processed was rendered Full, with its excerpt.
RenderedFull ==
    /\ co_format_policy = Full
    /\ Len(etraces) >= 1
    /\ Len(etraces[Len(etraces)].code) > 0

\* C6 as claimed: from frame to frame the budgets never increase, change
\* only when the frame is rendered Full, and never go below zero.
C6_BudgetsNeverNegative ==
    [][pc = "building" =>
          /\ max_full_display' <= max_full_display
          /\ expand_first_n' <= expand_first_n
          /\ (max_full_display' # max_full_display \/ expand_first_n' # expand_first_n)
                => RenderedFull'
          /\ max_full_display' >= 0
          /\ expand_first_n' >= 0]_vars

\* The frame's policy is decided by the budgets (no override, no valid
\* declaration).
ByDefaultRule(frame) ==
    cfg.override = None /\ frame.co_module \notin VALID_MEMBER_TRACE_POLICY

\* C6 as amended: from frame to frame the budgets never increase and change,
\* both by one, only when the frame is rendered Full; a frame that is Full
\* by the default rule never takes a budget below zero, while one that is
\* Full by the override or its module's declaration decrements the budgets
\* whatever they are, so that a budget is never below its initial value less
\* the number of frames processed.
C6_BudgetsMonotone ==
    [][(pc = "building" /\ idx <= Len(stack_frames)) =>
          /\ max_full_display' <= max_full_display
          /\ expand_first_n' <= expand_first_n
          /\ (max_full_display' # max_full_display \/ expand_first_n' # expand_first_n)
                => /\ RenderedFull'
                   /\ max_full_display' = max_full_display - 1
                   /\ expand_first_n' = expand_first_n - 1
          /\ (ByDefaultRule(stack_frames[idx]) /\ max_full_display >= 0
                    /\ expand_first_n >= 0)
                => (max_full_display' >= 0 /\ expand_first_n' >= 0)
          /\ max_full_display' >= cfg.max_full - Len(etraces')
          /\ expand_first_n' >= cfg.expand_n - Len(etraces')]_vars

C6_Witness ==
    /\ pc = "building"
    /\ idx = 3
    /\ cfg.override = Full
    /\ cfg.expand_n = 1
    /\ expand_first_n = -1
    /\ RenderedFull

\* C7: the context recorded for the error under a scope name is on the
\* document's frames of that scope name, and on no other frame.
C7_ContextOnItsFrame ==
    Built => \A i \in 1..Len(etraces) :
                 etraces[i].context = exc.contexts[etraces[i].origin.scope]

\* C8: for an error of a plain Exception subclass raised by a called
\* function (one whose source is on disk, as in the tests) and caught by
\* the caller, enhance_exception and then format_exception complete without
\* raising, and format_exception yields lines.
C8_EnhanceThenFormatCompletes ==
    (exc.cls = "TestError" /\ RaisedInCallee /\ SourceAccessible(Raiser)) =>
        /\ pc # "failed"
        /\ pc = "rendered" => Len(lines) >= 2

\* C9: rendering a captured value never raises and always yields a string.
C9_RendererNeverRaises == pc # "failed" /\ arep.is_str

\* The value the renderer was last applied to.
HasRendered == pc = "failed" \/ (pc \in {"args", "joined"} /\ idx >= 1)

LastValue == IF pc = "failed" THEN argv[idx + 1].val ELSE argv[idx].val

MonikerPathFails(v) ==
    v.probe = "raises" \/ (v.probe = "present" /\ v.moniker = "raises")

\* C10 as claimed: when the moniker path fails the result is the generic
\* representation, and the type-name string when that fails too.
C10_StepsIsolated ==
    (HasRendered /\ MonikerPathFails(LastValue)) =>
        /\ LastValue.repr = "ok" => arep.src = "repr"
        /\ LastValue.repr = "raises" => arep.src = "type"

\* C10 as amended: when the moniker path fails (the probe raises anything
\* but AttributeError, or reading the moniker raises) the result is the
\* placeholder ARG_ERROR and no generic representation is tried; when the
\* value has no moniker and its generic representation fails, the result is
\* the string naming its type, and ARG_ERROR when that fails too.
C10_MonikerFailureIsError ==
    HasRendered =>
        /\ MonikerPathFails(LastValue) => arep = ErrorRep
        /\ (LastValue.probe = "absent" /\ LastValue.repr = "raises")
              => (arep.src = "type" /\ arep.is_str)
        /\ (LastValue.probe = "absent" /\ LastValue.repr = "type_raises")
              => arep = ErrorRep

C10_Witness ==
    /\ pc \in {"args", "joined"}
    /\ idx >= 1
    /\ MonikerPathFails(LastValue)
    /\ LastValue.repr = "ok"
    /\ arep = ErrorRep

-----------------------------------------------------------------------------
(* The HTTP status lookup: C11, C12 *)

\* The base error the claim names for a code's hundred-range.
RangeBase(code) ==
    CASE code \in 300..399 -> "HttpResponse3xxError"
      [] code \in 400..499 -> "HttpResponse4xxError"
      [] code \in 500..599 -> "HttpResponse5xxError"
      [] OTHER -> "HTTPException"

\* C11: raise_for_http_status returns without raising for every code below
\* 300; for every code of 300 or more it raises the table entry when the code
\* is in the table and otherwise the base error of the code's hundred-range
\* (HTTPException outside 300-599); every table entry is a subclass of the
\* base error of its code's hundred-range.
C11_RaisesByTableThenRange ==
    /\ pc = "returned" => resp_code < 300 /\ error_type = None /\ err_msg = <<>>
    /\ pc = "raised" =>
         /\ resp_code >= 300
         /\ error_type = IF resp_code \in DOMAIN STATUS_TO_EXCEPTION_TABLE
                           THEN STATUS_TO_EXCEPTION_TABLE[resp_code]
                           ELSE RangeBase(resp_code)
         /\ IsSubclass(error_type, RangeBase(resp_code))
    /\ \A code \in DOMAIN STATUS_TO_EXCEPTION_TABLE :
         /\ code \in 300..599
         /\ IsSubclass(STATUS_TO_EXCEPTION_TABLE[code], RangeBase(code))
         /\ STATUS_TO_EXCEPTION_TABLE[code] # RangeBase(code)

\* A table code has raised its entry, a subclass of the 4xx base.
C11_Witness ==
    /\ pc = "raised"
    /\ resp_code = 404
    /\ error_type = "HttpNotFoundError"
    /\ BaseClass[error_type] = "HttpResponse4xxError"

\* The classes documented as raised when status code N is received.
DocumentedFor(code) == {cls \in DOMAIN DocumentedStatus : DocumentedStatus[cls] = code}

\* C12: for every status code N that a class of exceptions.py is documented
\* for, raise_for_http_status(N) raises exactly that documented class.
C12_DocumentedClassRaised ==
    (pc = "raised" /\ DocumentedFor(resp_code) # {}) => error_type \in DocumentedFor(resp_code)

-----------------------------------------------------------------------------
(* Frames without accessible source: C13, C16 *)

\* The merged (frame, lineno) sequence of the build in progress.
MergedFrames == FullStackFrames(CallingChain(api), exc.tb)

\* C13: frame collection never aborts because a frame lacks accessible
\* source: collect_stack_frames returns one descriptor for every merged
\* frame, wherever the source-less frame occurs (including first), and such a
\* frame has the fixed placeholder as its source line.
C13_CollectionNeverAborts ==
    /\ failure # "UnboundLocalError"
    /\ pc = "building" =>
         /\ Len(stack_frames) = Len(MergedFrames)
         /\ \A i \in 1..Len(stack_frames) :
              ~SourceAccessible(MergedFrames[i].frame) =>
                 stack_frames[i].line_code = OBFUSCATED

-----------------------------------------------------------------------------
(* The budgets across builds: C14 *)

\* The frames of a document rendered Full, with their excerpt.
FullIn(traces) == Cardinality({i \in 1..Len(traces) : Len(traces[i].code) > 0})

ConfiguredCap == IF cfg.max_full < cfg.expand_n THEN cfg.max_full ELSE cfg.expand_n

\* C14 as claimed: the budgets are counters shared by all the builds of the
\* process: a build goes on from what the earlier builds left, and the frames
\* rendered Full by default over all the builds are no more than the
\* configured caps allow.
C14_BudgetsSharedAcrossBuilds ==
    /\ full_rendered <= ConfiguredCap
    /\ pc = "building" =>
         /\ max_full_display = TRACEBACK_MAX_FULL_DISPLAY - full_rendered
         /\ expand_first_n = TRACEBACK_EXPAND_FIRST_N - full_rendered

\* C14 as amended: the caps are process-wide configuration that no build
\* writes; every build counts down its own copies of them, taken on entry,
\* so the frames rendered Full by default are bounded by the caps within each
\* document, not over the builds of the process.
C14_BudgetsPerBuild ==
    /\ cfg = TRACEBACK_CONFIG
    /\ pc = "building" =>
         /\ max_full_display = cfg.max_full - FullIn(etraces)
         /\ expand_first_n = cfg.expand_n - FullIn(etraces)
         /\ (\A i \in 1..Len(stack_frames) : ByDefaultRule(stack_frames[i]))
               => FullIn(etraces) <= ConfiguredCap
    /\ full_rendered >= FullIn(etraces)

\* A second build has rendered a frame Full by default after an earlier
\* build had used the whole expand-first-N allowance.
C14_Witness ==
    /\ pc = "building"
    /\ FullIn(etraces) = 1
    /\ full_rendered = 2
    /\ expand_first_n = 0
    /\ max_full_display = TRACEBACK_MAX_FULL_DISPLAY - 1

-----------------------------------------------------------------------------
(* The rendered document: C15 *)

\* The policy of the i-th frame of the build is Hide: by the override, or by
\* its module's declaration when there is no override.
HiddenFrame(i) ==
    \/ cfg.override = Hide
    \/ cfg.override = None /\ stack_frames[i].co_module = Hide

\* The lines the claim gives the i-th frame of the document.
ClaimedFrameLines(i) ==
    LET ntrace == etraces[i] IN
    <<Line("file", ntrace.frame)>>
    \o (IF HiddenFrame(i) THEN <<>> ELSE <<Line("call", ntrace.frame)>>)
    \o (IF Len(ntrace.code) > 0
        THEN <<Line("blank", ntrace.frame)>>
             \o [j \in 1..Len(ntrace.code) |-> Line("code", ntrace.frame)]
        ELSE <<>>)
    \o <<Line("blank", ntrace.frame)>>

RECURSIVE ClaimedBlocks(_)
ClaimedBlocks(i) ==
    IF i > Len(etraces) THEN <<>> ELSE ClaimedFrameLines(i) \o ClaimedBlocks(i + 1)

\* C15: the rendered document is one header line, one banner line, then for
\* each frame in document order a line naming file, line number and scope, a
\* call-signature line only if the frame is not hidden, a blank line and the
\* excerpt lines only if the frame has an excerpt, and a trailing blank line;
\* rendering the same document again gives the same lines.
C15_RenderedAsDescribed ==
    pc = "rendered" =>
        /\ lines = <<Line("header", NoFrame), Line("banner", NoFrame)>> \o ClaimedBlocks(1)
        /\ lines = format_traceback_detail(TracebackDetail(exc, etraces))

\* C16: in the sequence collect_stack_frames returned, a frame's excerpt is
\* absent or the numbered body of the frame's own function; a frame without
\* accessible source carries no excerpt, so that no policy renders source
\* lines for it or takes budget for it.
C16_ExcerptIsOwnOrAbsent ==
    /\ \A i \in 1..Len(stack_frames) :
         /\ stack_frames[i].code_lines # NoLines
               => stack_frames[i].code_lines.owner = stack_frames[i].frame
         /\ stack_frames[i].line_code = OBFUSCATED
               => stack_frames[i].code_lines = NoLines
    /\ \A i \in 1..Len(etraces) :
         stack_frames[i].line_code = OBFUSCATED => Len(etraces[i].code) = 0

====
